---- MODULE Spec2Model ----
(***************************************************************************)
(* Model of the adap-names name core, iteration b06 (immutable value       *)
(* objects): the masking engine (unescape / escapeForDelimiter /           *)
(* validateMasked), the two representations StringName and StringArrayName *)
(* and the edit operations of AbstractName.                                *)
(*                                                                         *)
(* A string is a sequence of one-character strings, so "a\.b" is           *)
(* <<"a", "\\", ".", "b">>.  Sequences are 1-based: the source's index i   *)
(* is position i + 1 here.                                                 *)
(***************************************************************************)
EXTENDS Integers, Sequences, FiniteSets, TLC

VARIABLES
  text, delim, log,      \* the masking engine under test
  this,                  \* the name object the client holds as receiver
  ret,                   \* the name object the last call returned, or Null
  arrays,                \* the heap: array reference -> contents
  call,                  \* the last call: arguments, outcome
  pc                     \* the client: "ready" to call, a call "returned", or
                         \* the returned name "edited" in turn

VARIABLES
  arr,                   \* a StringArrayName, as a view
  str,                   \* the StringName that takes the same calls
  pcall                  \* the last call made on both, and its two outcomes

VARIABLES
  mut,                   \* the b02, b03 or b04 name that the client holds
  mcall                  \* the last call on it, with its outcome

VARIABLES
  nodes,                 \* b04 tree: the base names on one path below the
                         \* root, nodes[k] being the child of nodes[k - 1]
  tcall,                 \* the last call on a node of the path
  state,                 \* b04 File: the state field of one file
  fcall                  \* the calls made on the file, the last one last

maskVars == <<text, delim, log>>

nameVars == <<this, ret, arrays, call, pc>>

pairVars == <<arr, str, pcall>>

mutVars == <<mut, mcall>>

fsVars == <<nodes, tcall, state, fcall>>

vars ==
  <<text, delim, log, this, ret, arrays, call, pc, arr, str, pcall,
    mut, mcall, nodes, tcall, state, fcall>>

(***************************************************************************)
(* Bounds                                                                  *)
(***************************************************************************)
MaxLen == 3        \* longest input string of the masking engine
MaxCalls == 3      \* longest chain of masking-engine calls on one input
MaxCompLen == 2    \* longest component a client passes
MaxComps == 2      \* most components of a list a client passes or builds
MaxSrcLen == 3     \* longest source string a client passes to new StringName
MaxLaterLen == 0   \* longest component passed in an edit of a returned name
MaxEdits == 2      \* most calls made on one mutable name
MaxEditLen == 1    \* longest component passed to a mutable name
MaxEditSrc == 2    \* longest source string of a mutable StringName
MaxSteps == 6      \* most iterations followed of one concat loop
MaxDepth == 2      \* most nodes on the path below the root
MaxBaseLen == 2    \* longest base name given to a node
MaxFileCalls == 3  \* most calls made on the file
MaxBytes == 1      \* largest noBytes passed to read

(***************************************************************************)
(* Characters                                                              *)
(***************************************************************************)
DEFAULT_DELIMITER == "."
ESCAPE_CHARACTER == "\\"

\* The characters strings are made of: a plain one, two usable as
\* delimiters, and the escape character.
Chars == {"a", ".", "/", "\\"}

\* The delimiters a caller passes: any single character is accepted by
\* the constructor, the escape character included.
Delims == {".", "/", "\\"}

\* The characters of the strings given to names: under the delimiter "."
\* the character "/" is a plain one, and the other way round.
NameChars == {".", "/", "\\"}

RECURSIVE SeqsOfLen(_, _)
SeqsOfLen(S, n) ==
  IF n = 0 THEN {<<>>}
  ELSE {Append(s, c) : s \in SeqsOfLen(S, n - 1), c \in S}

RECURSIVE SeqsUpTo(_, _)
SeqsUpTo(S, n) ==
  IF n = 0 THEN {<<>>} ELSE SeqsUpTo(S, n - 1) \cup SeqsOfLen(S, n)

StringsUpTo(n) == SeqsUpTo(Chars, n)

(***************************************************************************)
(* Masking engine (AbstractName static helpers)                            *)
(***************************************************************************)

\* unescape: the loop of AbstractName.unescape from position i on, with
\* the result accumulated so far.
RECURSIVE unescapeLoop(_, _, _)
unescapeLoop(masked, i, result) ==
  IF i > Len(masked) THEN result
  ELSE IF masked[i] = ESCAPE_CHARACTER
       THEN IF i + 1 <= Len(masked)
            THEN unescapeLoop(masked, i + 2, Append(result, masked[i + 1]))
            ELSE unescapeLoop(masked, i + 2, result)
       ELSE unescapeLoop(masked, i + 1, Append(result, masked[i]))

\* Variant: every escape character is dropped, an escaped one too.
unescape_dropsAll(masked) ==
  SelectSeq(masked, LAMBDA ch : ch # ESCAPE_CHARACTER)

unescape(masked) == unescapeLoop(masked, 1, <<>>)

RECURSIVE escapeLoop(_, _, _, _)
escapeLoop(raw, delimiter, i, result) ==
  IF i > Len(raw) THEN result
  ELSE IF raw[i] = ESCAPE_CHARACTER \/ raw[i] = delimiter
       THEN escapeLoop(raw, delimiter, i + 1,
                       Append(Append(result, ESCAPE_CHARACTER), raw[i]))
       ELSE escapeLoop(raw, delimiter, i + 1, Append(result, raw[i]))

\* Variant: only the escape character is escaped, the delimiter is not.
escapeForDelimiter_escapeOnly(raw, delimiter) ==
  escapeLoop(raw, ESCAPE_CHARACTER, 1, <<>>)

escapeForDelimiter(raw, delimiter) == escapeLoop(raw, delimiter, 1, <<>>)

\* validateMasked: "none" when the loop ends without throwing, otherwise
\* the message of the InvalidStateException it throws.
RECURSIVE validateLoop(_, _, _)
validateLoop(masked, delimiter, i) ==
  IF i > Len(masked) THEN "none"
  ELSE IF masked[i] = ESCAPE_CHARACTER
       THEN IF i + 1 > Len(masked)
            THEN "dangling escape in component"
            ELSE validateLoop(masked, delimiter, i + 2)
       ELSE IF masked[i] = delimiter
            THEN "unmasked delimiter in component"
            ELSE validateLoop(masked, delimiter, i + 1)

\* Variant: a trailing escape character is let through.
validateMasked_lenient(masked, delimiter) ==
  IF validateLoop(masked, delimiter, 1) = "dangling escape in component"
  THEN "none"
  ELSE validateLoop(masked, delimiter, 1)

validateMasked(masked, delimiter) == validateLoop(masked, delimiter, 1)

(***************************************************************************)
(* Objects and the heap                                                    *)
(*                                                                         *)
(* A name object is a record of its fields; its components field is a      *)
(* reference to an array, and the heap maps each reference to the array's  *)
(* contents.  The references are named after the one thing that holds      *)
(* them when no call is running: "this" the array of the receiver, "ret"   *)
(* the array of the object a call creates, "parts" the local array of the  *)
(* running call, "other" the array of the argument of concat / isEqual,    *)
(* "held" the array of a name the client holds besides the receiver.       *)
(***************************************************************************)
Refs == {"this", "ret", "parts", "other", "held"}

Null ==
  [kind |-> "null", delimiter |-> "", maskedName |-> <<>>, components |-> "null"]

EmptyHeap == [r \in Refs |-> <<>>]

\* The outcome of a call: the heap it leaves, and the value it returns or
\* the exception it throws.
Return(h, v) == [heap |-> h, ret |-> v, exc |-> "none", msg |-> ""]
Throw(h, e, m) == [heap |-> h, ret |-> Null, exc |-> e, msg |-> m]

\* The delimiter arguments that are not one-character strings.
NULL == <<"null">>
UNDEFINED == <<"undefined">>

(***************************************************************************)
(* AbstractName: constructor and checks                                    *)
(***************************************************************************)

\* AbstractName.constructor: the delimiter argument is a string (a sequence
\* of characters), NULL or UNDEFINED; the result is the delimiter field or
\* the message of the IllegalArgumentException.
AbstractNameInit(delimiter) ==
  LET d == IF delimiter = UNDEFINED THEN <<DEFAULT_DELIMITER>> ELSE delimiter
  IN  IF d = NULL
      THEN [exc |-> "IllegalArgumentException",
            msg |-> "delimiter must not be null", delimiter |-> ""]
      ELSE IF Len(d) # 1
      THEN [exc |-> "IllegalArgumentException",
            msg |-> "delimiter must be a single character", delimiter |-> ""]
      ELSE [exc |-> "none", msg |-> "", delimiter |-> d[1]]

\* A number argument: whole + frac/10.  Number(k) is the integer k and HALF
\* is 0.5, the number with a fractional part that the client passes.
Number(k) == [whole |-> k, frac |-> 0]
HALF == [whole |-> 0, frac |-> 5]

\* Number.isInteger(i)
isInteger(i) == i.frac = 0

\* assertIndex: "none" or the message of the IllegalArgumentException.
assertIndex(i, n) ==
  IF ~isInteger(i) THEN "index must be integer"
  ELSE IF i.whole < 0 \/ i.whole >= n THEN "index out of range"
  ELSE "none"

\* assertMaskedComponent: "none" or the message of the InvalidStateException
\* that validateMasked throws.
assertMaskedComponent(masked, delimiter) == validateMasked(masked, delimiter)

\* The loop "for (const c of source) this.assertMaskedComponent(c, ...)" of
\* both constructors, from element k on: the first failure or "none".
RECURSIVE assertAllMasked(_, _, _)
assertAllMasked(source, delimiter, k) ==
  IF k > Len(source) THEN "none"
  ELSE IF assertMaskedComponent(source[k], delimiter) # "none"
       THEN assertMaskedComponent(source[k], delimiter)
       ELSE assertAllMasked(source, delimiter, k + 1)

(***************************************************************************)
(* StringArrayName                                                         *)
(***************************************************************************)

\* Variant: the constructor copies the source without validating it.
NewStringArrayName_unchecked(h, source, delimiter, dst) ==
  LET super == AbstractNameInit(delimiter)
  IN  IF super.exc # "none" THEN Throw(h, super.exc, super.msg)
      ELSE Return([h EXCEPT ![dst] = h[source]],
                  [kind |-> "StringArrayName", delimiter |-> super.delimiter,
                   maskedName |-> <<>>, components |-> dst])

\* new StringArrayName(source, delimiter), source a reference to an array.
\* The new object's array is a copy of the source array, stored at dst.
NewStringArrayName(h, source, delimiter, dst) ==
  LET super == AbstractNameInit(delimiter)
      bad == assertAllMasked(h[source], super.delimiter, 1)
  IN  IF super.exc # "none" THEN Throw(h, super.exc, super.msg)
      ELSE IF bad # "none" THEN Throw(h, "InvalidStateException", bad)
      ELSE Return([h EXCEPT ![dst] = h[source]],
                  [kind |-> "StringArrayName", delimiter |-> super.delimiter,
                   maskedName |-> <<>>, components |-> dst])

(***************************************************************************)
(* StringName                                                              *)
(***************************************************************************)

\* The loop of parseMaskedName from position i on, with the component
\* being accumulated and the components found so far.
RECURSIVE parseLoop(_, _, _, _, _)
parseLoop(source, delimiter, i, current, parts) ==
  IF i > Len(source) THEN Append(parts, current)
  ELSE IF source[i] = "\\"
       THEN IF i + 1 <= Len(source)
            THEN parseLoop(source, delimiter, i + 2,
                           Append(Append(current, source[i]), source[i + 1]), parts)
            ELSE parseLoop(source, delimiter, i + 2, Append(current, source[i]), parts)
       ELSE IF source[i] = delimiter
            THEN parseLoop(source, delimiter, i + 1, <<>>, Append(parts, current))
            ELSE parseLoop(source, delimiter, i + 1, Append(current, source[i]), parts)

\* Variant: the empty source is tokenized like any other and gives one
\* empty component.
parseMaskedName_oneEmpty(source, delimiter) ==
  parseLoop(source, delimiter, 1, <<>>, <<>>)

\* Variant: an escape character at the end of the source with nothing after
\* it is left out of the last component.
parseMaskedName_repairs(source, delimiter) ==
  LET parts == parseLoop(source, delimiter, 1, <<>>, <<>>)
      last == parts[Len(parts)]
  IN  IF Len(source) = 0 THEN <<>>
      ELSE IF validateMasked(last, delimiter) = "dangling escape in component"
      THEN [parts EXCEPT ![Len(parts)] = SubSeq(last, 1, Len(last) - 1)]
      ELSE parts

\* Variant: a delimiter at the end of the source opens no component.
parseMaskedName_noTrailing(source, delimiter) ==
  LET parts == parseLoop(source, delimiter, 1, <<>>, <<>>)
  IN  IF Len(source) = 0 THEN <<>>
      ELSE IF Len(parts) > 1 /\ Len(parts[Len(parts)]) = 0
      THEN SubSeq(parts, 1, Len(parts) - 1)
      ELSE parts

parseMaskedName(source, delimiter) ==
  IF Len(source) = 0 THEN <<>> ELSE parseLoop(source, delimiter, 1, <<>>, <<>>)

\* new StringName(source, delimiter).  The array parseMaskedName returns
\* becomes the new object's components array, stored at dst.
NewStringName(h, source, delimiter, dst) ==
  LET super == AbstractNameInit(delimiter)
      parsed == parseMaskedName(source, super.delimiter)
      bad == assertAllMasked(parsed, super.delimiter, 1)
  IN  IF super.exc # "none" THEN Throw(h, super.exc, super.msg)
      ELSE IF bad # "none" THEN Throw(h, "InvalidStateException", bad)
      ELSE Return([h EXCEPT ![dst] = parsed],
                  [kind |-> "StringName", delimiter |-> super.delimiter,
                   maskedName |-> source, components |-> dst])

\* Array.prototype.join
RECURSIVE join(_, _)
join(components, delimiter) ==
  IF Len(components) = 0 THEN <<>>
  ELSE IF Len(components) = 1 THEN components[1]
  ELSE components[1] \o <<delimiter>> \o join(Tail(components), delimiter)

(***************************************************************************)
(* Accessors and the factory method                                        *)
(***************************************************************************)
getDelimiterCharacter(n) == n.delimiter

getNoComponents(h, n) == Len(h[n.components])

\* Variant: no upper bound on the index; reading an array past its end
\* gives undefined.
getComponent_noUpperBound(h, n, i) ==
  IF ~isInteger(i)
  THEN Throw(h, "IllegalArgumentException", "index must be integer")
  ELSE IF i.whole < 0
  THEN Throw(h, "IllegalArgumentException", "index out of range")
  ELSE IF i.whole >= Len(h[n.components]) THEN Return(h, UNDEFINED)
  ELSE Return(h, h[n.components][i.whole + 1])

\* getComponent of both classes: the component, or the exception.
getComponent(h, n, i) ==
  IF ~isInteger(i)
  THEN Throw(h, "IllegalArgumentException", "index must be integer")
  ELSE IF i.whole < 0 \/ i.whole >= Len(h[n.components])
  THEN Throw(h, "IllegalArgumentException", "index out of range")
  ELSE Return(h, h[n.components][i.whole + 1])

isEmpty(h, n) == getNoComponents(h, n) = 0

\* withComponents of both classes; components is a reference to an array.
withComponents(h, n, components) ==
  IF n.kind = "StringArrayName"
  THEN NewStringArrayName(h, components, <<n.delimiter>>, "ret")
  ELSE NewStringName(h,
                     IF Len(h[components]) = 0 THEN <<>>
                     ELSE join(h[components], n.delimiter),
                     <<n.delimiter>>, "ret")

\* The loop of copyComponents from index i on: what it pushes.
RECURSIVE copyLoop(_, _, _)
copyLoop(h, n, i) ==
  IF i >= getNoComponents(h, n) THEN <<>>
  ELSE <<getComponent(h, n, Number(i)).ret>> \o copyLoop(h, n, i + 1)

\* Variant: the receiver's own array is handed out instead of a copy.
copyComponents_shared(h, n) == [heap |-> h, ref |-> n.components]

\* copyComponents: a new array, local to the caller ("parts").
copyComponents(h, n) ==
  [heap |-> [h EXCEPT !["parts"] = copyLoop(h, n, 0)], ref |-> "parts"]

(***************************************************************************)
(* AbstractName: the edit operations.  Each takes the heap and the         *)
(* receiver n and gives the outcome of the call.                           *)
(***************************************************************************)
setComponent(h, n, i, c) ==
  LET bad == assertMaskedComponent(c, n.delimiter)
      parts == copyComponents(h, n)
      range == assertIndex(i, Len(parts.heap[parts.ref]))
  IN  IF bad # "none" THEN Throw(h, "InvalidStateException", bad)
      ELSE IF range # "none"
      THEN Throw(parts.heap, "IllegalArgumentException", range)
      ELSE withComponents([parts.heap EXCEPT ![parts.ref][i.whole + 1] = c],
                          n, parts.ref)

\* Array.prototype.splice(i, 0, c) and splice(i, 1), for i within range.
spliceIn(a, i, c) == SubSeq(a, 1, i) \o <<c>> \o SubSeq(a, i + 1, Len(a))
spliceOut(a, i) == SubSeq(a, 1, i) \o SubSeq(a, i + 2, Len(a))

insert(h, n, i, c) ==
  LET bad == assertMaskedComponent(c, n.delimiter)
      parts == copyComponents(h, n)
  IN  IF bad # "none" THEN Throw(h, "InvalidStateException", bad)
      ELSE IF ~isInteger(i) \/ i.whole < 0
                 \/ i.whole > Len(parts.heap[parts.ref])
      THEN Throw(parts.heap, "IllegalArgumentException", "index out of range")
      ELSE withComponents(
             [parts.heap EXCEPT ![parts.ref] = spliceIn(@, i.whole, c)],
             n, parts.ref)

append(h, n, c) ==
  LET bad == assertMaskedComponent(c, n.delimiter)
      parts == copyComponents(h, n)
  IN  IF bad # "none" THEN Throw(h, "InvalidStateException", bad)
      ELSE withComponents(
             [parts.heap EXCEPT ![parts.ref] = Append(@, c)], n, parts.ref)

remove(h, n, i) ==
  LET parts == copyComponents(h, n)
      range == assertIndex(i, Len(parts.heap[parts.ref]))
  IN  IF range # "none"
      THEN Throw(parts.heap, "IllegalArgumentException", range)
      ELSE withComponents(
             [parts.heap EXCEPT ![parts.ref] = spliceOut(@, i.whole)],
             n, parts.ref)

\* The loop of concat from index i on: other's components are pushed onto
\* the array parts, one getComponent call at a time.
RECURSIVE concatLoop(_, _, _, _)
concatLoop(h, other, parts, i) ==
  IF i >= getNoComponents(h, other) THEN h
  ELSE concatLoop([h EXCEPT ![parts] = Append(@, getComponent(h, other, Number(i)).ret)],
                  other, parts, i + 1)

concat(h, n, other) ==
  LET parts == copyComponents(h, n)
  IN  IF other = Null
      THEN Throw(h, "IllegalArgumentException", "other must not be null")
      ELSE withComponents(concatLoop(parts.heap, other, parts.ref, 0),
                          n, parts.ref)

(***************************************************************************)
(* AbstractName: Printable and Equality                                    *)
(***************************************************************************)

\* Array.prototype.map with unescape / escapeForDelimiter
mapUnescape(a) == [k \in 1..Len(a) |-> unescape(a[k])]
mapEscape(a, delimiter) == [k \in 1..Len(a) |-> escapeForDelimiter(a[k], delimiter)]

\* Variant: the raw components are escaped for the delimiter before they
\* are joined.
asString_escaping(h, n, delimiter) ==
  LET d == IF delimiter = UNDEFINED THEN <<n.delimiter>> ELSE delimiter
      parts == copyComponents(h, n)
  IN  IF d = NULL
      THEN Throw(h, "IllegalArgumentException", "delimiter must not be null")
      ELSE IF Len(d) # 1
      THEN Throw(h, "IllegalArgumentException",
                 "delimiter must be a single character")
      ELSE Return(h, join(mapEscape(mapUnescape(parts.heap[parts.ref]),
                                    d[1]), d[1]))

\* asString(delimiter): the argument is a string, null, or undefined, which
\* stands for this.delimiter.  The outcome holds the string as ret.
asString(h, n, delimiter) ==
  LET d == IF delimiter = UNDEFINED THEN <<n.delimiter>> ELSE delimiter
      parts == copyComponents(h, n)
  IN  IF d = NULL
      THEN Throw(h, "IllegalArgumentException", "delimiter must not be null")
      ELSE IF Len(d) # 1
      THEN Throw(h, "IllegalArgumentException",
                 "delimiter must be a single character")
      ELSE Return(h, join(mapUnescape(parts.heap[parts.ref]), d[1]))

\* Variant: the raw components are escaped for, and joined by, the name's
\* own delimiter.
asDataString_ownDelimiter(h, n) ==
  LET parts == copyComponents(h, n)
  IN  join(mapEscape(mapUnescape(parts.heap[parts.ref]), n.delimiter),
           n.delimiter)

asDataString(h, n) ==
  LET parts == copyComponents(h, n)
  IN  join(mapEscape(mapUnescape(parts.heap[parts.ref]), DEFAULT_DELIMITER),
           DEFAULT_DELIMITER)

\* The loop of isEqual from index i on.
RECURSIVE isEqualLoop(_, _, _, _)
isEqualLoop(h, n, o, i) ==
  IF i >= getNoComponents(h, n) THEN TRUE
  ELSE IF getComponent(h, n, Number(i)).ret
          # getComponent(h, o, Number(i)).ret THEN FALSE
  ELSE isEqualLoop(h, n, o, i + 1)

\* Variant: the delimiters are not compared.
isEqual_anyDelimiter(h, n, o) ==
  IF o = Null THEN FALSE
  ELSE IF getNoComponents(h, n) # getNoComponents(h, o) THEN FALSE
  ELSE isEqualLoop(h, n, o, 0)

\* isEqual, for an argument that is null or a name
isEqual(h, n, o) ==
  IF o = Null THEN FALSE
  ELSE IF getDelimiterCharacter(n) # getDelimiterCharacter(o) THEN FALSE
  ELSE IF getNoComponents(h, n) # getNoComponents(h, o) THEN FALSE
  ELSE isEqualLoop(h, n, o, 0)

(***************************************************************************)
(* AbstractName: getHashCode.  The hash is a JavaScript number: hashStep   *)
(* multiplies by 31 without truncation and then, for every character,     *)
(* computes (x * 31 + code) | 0, which truncates to 32 bits.  A number is  *)
(* kept as [bits, times31]: the 32-bit integer with the pattern bits (two  *)
(* 16-bit words, high word first) multiplied times31 times by 31.  The     *)
(* products are exact in a double up to 31^4 times a 32-bit integer,       *)
(* which covers two empty components in a row before a non-empty one.      *)
(***************************************************************************)
charCodeAt(ch) ==
  CASE ch = "." -> 46 [] ch = "/" -> 47 [] ch = "\\" -> 92 [] ch = "a" -> 97

\* (x * 31 + code) | 0 for a 32-bit x
mulAdd(bits, code) ==
  LET low == bits[2] * 31 + code
  IN  <<(bits[1] * 31 + low \div 65536) % 65536, low % 65536>>

\* The 32 bits of x * 31^times31
RECURSIVE truncate(_)
truncate(x) ==
  IF x.times31 = 0 THEN x.bits
  ELSE truncate([bits |-> mulAdd(x.bits, 0), times31 |-> x.times31 - 1])

\* The loop of hashStep from position i of s on.
RECURSIVE hashLoop(_, _, _)
hashLoop(x, s, i) ==
  IF i > Len(s) THEN x
  ELSE hashLoop([bits |-> mulAdd(truncate(x), charCodeAt(s[i])),
                 times31 |-> 0], s, i + 1)

hashStep(h, s) ==
  hashLoop([bits |-> h.bits, times31 |-> h.times31 + 1], s, 1)

\* The loop of getHashCode from component i on.
RECURSIVE hashComponents(_, _, _, _)
hashComponents(h, n, i, hash) ==
  IF i >= getNoComponents(h, n) THEN hash
  ELSE hashComponents(h, n, i + 1,
                      hashStep(hash, getComponent(h, n, Number(i)).ret))

\* Variant: a StringName hashes the string it was built from.
getHashCode_ofSource(h, n) ==
  IF n.kind = "StringName"
  THEN hashStep(hashStep([bits |-> <<0, 17>>, times31 |-> 0],
                         <<getDelimiterCharacter(n)>>), n.maskedName)
  ELSE hashComponents(h, n, 0,
         hashStep([bits |-> <<0, 17>>, times31 |-> 0],
                  <<getDelimiterCharacter(n)>>))

getHashCode(h, n) ==
  hashComponents(h, n, 0,
    hashStep([bits |-> <<0, 17>>, times31 |-> 0],
             <<getDelimiterCharacter(n)>>))

(***************************************************************************)
(* The mutable iterations b02 to b04.  A name is a record of its fields:   *)
(* iter is the iteration it belongs to, a StringArrayName keeps            *)
(* components, a StringName keeps name and noComponents.  A call gives     *)
(* [obj, value, exc, msg]: the receiver after the call, what the call      *)
(* returned, and the exception it threw.                                   *)
(***************************************************************************)
Iterations == {"b03", "b04"}

NoName ==
  [iter |-> "none", kind |-> "null", delimiter |-> "", components |-> <<>>,
   name |-> <<>>, noComponents |-> 0]

Gives(n, v) == [obj |-> n, value |-> v, exc |-> "none", msg |-> ""]
Fails(n, e, m) == [obj |-> n, value |-> <<>>, exc |-> e, msg |-> m]

\* The exception that validateMasked of the iteration's classes throws.
MaskingErrorOf(iter) ==
  IF iter = "b04" THEN "IllegalArgumentException" ELSE "Error"

\* The exception of checkIndex / checkIndexRange of the class.
IndexErrorOf(iter, kind) ==
  IF iter = "b04" THEN "IllegalArgumentException"
  ELSE IF kind = "StringName" THEN "RangeError" ELSE "Error"

\* checkInvariant of the b04 AbstractName, given what getNoComponents()
\* returns: the exception or "none".
checkInvariant(n) ==
  IF n < 0 THEN "InvalidStateException" ELSE "none"

\* splitMasked of the b03 and b04 StringName: the loop is the one of the
\* b06 parseMaskedName, and the empty text gives one empty component.
splitMasked(txt, delimiter) == parseLoop(txt, delimiter, 1, <<>>, <<>>)

\* The constructor of the AbstractName of iteration iter up to its call of
\* checkInvariant(): the delimiter argument is a string, NULL or UNDEFINED.
\* b04 throws unless the string has one character; b03 stores what it is
\* given, as the constructors of b02 do, and these are called here with
\* one-character strings and UNDEFINED only.
mutAbstractNameInit(iter, delimiter) ==
  LET d == IF delimiter = UNDEFINED THEN <<DEFAULT_DELIMITER>> ELSE delimiter
  IN  IF iter = "b04" /\ (d = NULL \/ Len(d) # 1)
      THEN [exc |-> "IllegalArgumentException",
            msg |-> "Delimiter must be a single, non-empty character",
            delimiter |-> ""]
      ELSE [exc |-> "none", msg |-> "", delimiter |-> d[1]]

\* new StringArrayName(source, delimiter) of iteration iter.  In b04 the
\* AbstractName constructor calls checkInvariant(), which reads
\* this.components.length before the field initializer of the subclass has
\* run.
mutNewStringArrayName(iter, source, delimiter) ==
  LET super == mutAbstractNameInit(iter, delimiter)
      bad == assertAllMasked(source, super.delimiter, 1)
  IN  IF super.exc # "none" THEN Fails(NoName, super.exc, super.msg)
      ELSE IF iter = "b04"
      THEN Fails(NoName, "TypeError",
                 "Cannot read properties of undefined (reading 'length')")
      ELSE IF bad # "none" THEN Fails(NoName, MaskingErrorOf(iter), bad)
      ELSE Gives([NoName EXCEPT !.iter = iter, !.kind = "StringArrayName",
                                !.delimiter = super.delimiter,
                                !.components = source], <<>>)

\* new StringName(source, delimiter) of iteration iter.  In b04 the
\* checkInvariant() of the AbstractName constructor reads noComponents as
\* undefined, and undefined < 0 is false.
mutNewStringName(iter, source, delimiter) ==
  LET super == mutAbstractNameInit(iter, delimiter)
      comps == splitMasked(source, super.delimiter)
      bad == assertAllMasked(comps, super.delimiter, 1)
  IN  IF super.exc # "none" THEN Fails(NoName, super.exc, super.msg)
      ELSE IF Len(source) = 0
      THEN Gives([NoName EXCEPT !.iter = iter, !.kind = "StringName",
                                !.delimiter = super.delimiter], <<>>)
      ELSE IF bad # "none" THEN Fails(NoName, MaskingErrorOf(iter), bad)
      ELSE Gives([NoName EXCEPT !.iter = iter, !.kind = "StringName",
                                !.delimiter = super.delimiter,
                                !.name = join(comps, super.delimiter),
                                !.noComponents = Len(comps)], <<>>)

mutGetNoComponents(n) ==
  IF n.kind = "StringArrayName" THEN Len(n.components) ELSE n.noComponents

\* getComponents of StringName
getComponents(n) ==
  IF n.noComponents = 0 \/ Len(n.name) = 0 THEN <<>>
  ELSE splitMasked(n.name, n.delimiter)

\* getComponent(i) of the four classes
mutGetComponent(n, i) ==
  LET components == IF n.kind = "StringArrayName" THEN n.components
                    ELSE getComponents(n)
  IN  IF ~isInteger(i) \/ i.whole < 0 \/ i.whole >= Len(components)
      THEN Fails(n, IndexErrorOf(n.iter, n.kind), "index out of range")
      ELSE Gives(n, components[i.whole + 1])

\* The loop of isEqual from index i on.
RECURSIVE mutIsEqualLoop(_, _, _)
mutIsEqualLoop(n, other, i) ==
  LET a == mutGetComponent(n, Number(i))
      b == mutGetComponent(other, Number(i))
  IN  IF i >= mutGetNoComponents(n) THEN Gives(n, TRUE)
      ELSE IF a.exc # "none" THEN a
      ELSE IF b.exc # "none" THEN Fails(n, b.exc, b.msg)
      ELSE IF a.value # b.value THEN Gives(n, FALSE)
      ELSE mutIsEqualLoop(n, other, i + 1)

\* isEqual of the b03 and of the b04 AbstractName; NoName is a null argument.
mutIsEqual(n, other) ==
  IF n.iter = "b04" /\ other = NoName
  THEN Fails(n, "IllegalArgumentException", "Other name must not be null")
  ELSE IF n.iter = "b04" /\ checkInvariant(mutGetNoComponents(n)) # "none"
  THEN Fails(n, checkInvariant(mutGetNoComponents(n)), "Invariant violated")
  ELSE IF other = NoName
  THEN Fails(n, "TypeError", "Cannot read properties of null")
  ELSE IF mutGetNoComponents(n) # mutGetNoComponents(other)
  THEN Gives(n, FALSE)
  ELSE mutIsEqualLoop(n, other, 0)

\* The components a name keeps, as its own methods read them.
mutComponents(n) ==
  IF n.kind = "StringArrayName" THEN n.components ELSE getComponents(n)

\* updateName of StringName
updateName(n, components) ==
  LET bad == assertAllMasked(components, n.delimiter, 1)
  IN  IF Len(components) = 0
      THEN Gives([n EXCEPT !.name = <<>>, !.noComponents = 0], <<>>)
      ELSE IF bad # "none" THEN Fails(n, MaskingErrorOf(n.iter), bad)
      ELSE Gives([n EXCEPT !.name = join(components, n.delimiter),
                           !.noComponents = Len(components)], <<>>)

\* The end of an edit: a StringArrayName has changed its array in place, a
\* StringName calls updateName with the edited copy.
store(n, components) ==
  IF n.kind = "StringArrayName"
  THEN Gives([n EXCEPT !.components = components], <<>>)
  ELSE updateName(n, components)

\* The checks an edit makes before it changes anything: checkInvariant()
\* in b04, the index check (i is an integer; hi is the last index let
\* through), then validateMasked of the component.
editChecks(n, i, hi, c) ==
  IF n.iter = "b04" /\ checkInvariant(mutGetNoComponents(n)) # "none"
  THEN Fails(n, checkInvariant(mutGetNoComponents(n)), "Invariant violated")
  ELSE IF i.whole < 0 \/ i.whole > hi
  THEN Fails(n, IndexErrorOf(n.iter, n.kind), "index out of range")
  ELSE IF validateMasked(c, n.delimiter) # "none"
  THEN Fails(n, MaskingErrorOf(n.iter), validateMasked(c, n.delimiter))
  ELSE Gives(n, <<>>)

\* setComponent, insert, append and remove of the six classes, called with
\* an integer index.
mutSetComponent(n, i, c) ==
  LET components == mutComponents(n)
      ok == editChecks(n, i, Len(components) - 1, c)
  IN  IF ok.exc # "none" THEN ok
      ELSE store(n, [components EXCEPT ![i.whole + 1] = c])

mutInsert(n, i, c) ==
  LET components == mutComponents(n)
      ok == editChecks(n, i, Len(components), c)
  IN  IF ok.exc # "none" THEN ok
      ELSE store(n, spliceIn(components, i.whole, c))

mutAppend(n, c) ==
  LET components == mutComponents(n)
      ok == editChecks(n, Number(0), 0, c)
  IN  IF ok.exc # "none" THEN ok
      ELSE store(n, Append(components, c))

mutRemove(n, i) ==
  LET components == mutComponents(n)
      ok == editChecks(n, i, Len(components) - 1, <<>>)
  IN  IF ok.exc # "none" THEN ok
      ELSE store(n, spliceOut(components, i.whole))

\* concat runs a loop whose bound can move while it runs, so it is taken
\* one iteration at a time.  A loop is [pos, acc, oldNo, addNo]: the index
\* i, the local array of the b02 StringName, and the two counts the b04
\* AbstractName reads before its loop.
NoLoop == [pos |-> 0, acc |-> <<>>, oldNo |-> 0, addNo |-> 0]

\* concat up to the loop
concatBegin(n, other) ==
  [NoLoop EXCEPT !.acc = IF n.iter = "b02" /\ n.kind = "StringName"
                         THEN getComponents(n) ELSE <<>>,
                 !.oldNo = mutGetNoComponents(n),
                 !.addNo = mutGetNoComponents(other)]

\* The loop condition i < other.getNoComponents(), or i < addNo in b04.
concatGoesOn(n, other, loop) ==
  loop.pos < (IF n.iter = "b04" THEN loop.addNo
              ELSE mutGetNoComponents(other))

\* One iteration of the loop: [obj, value, exc, msg] with the local array
\* as the value.
concatIteration(n, other, loop) ==
  LET part == mutGetComponent(other, Number(loop.pos))
      bad == validateMasked(part.value, n.delimiter)
      appended == mutAppend(n, part.value)
  IN  IF part.exc # "none" THEN Fails(n, part.exc, part.msg)
      ELSE IF n.iter = "b02"
      THEN IF bad # "none" THEN Fails(n, MaskingErrorOf(n.iter), bad)
           ELSE IF n.kind = "StringArrayName"
           THEN Gives([n EXCEPT !.components = Append(n.components,
                                                      part.value)], loop.acc)
           ELSE Gives(n, Append(loop.acc, part.value))
      ELSE IF appended.exc # "none" THEN appended
      ELSE Gives(appended.obj, loop.acc)

\* concat after the loop: updateName in the b02 StringName, the
\* postcondition in b04.
concatEnd(n, loop) ==
  IF n.iter = "b02" /\ n.kind = "StringName" THEN updateName(n, loop.acc)
  ELSE IF n.iter = "b04" /\ mutGetNoComponents(n) # loop.oldNo + loop.addNo
  THEN Fails(n, "MethodFailedException", "concat postcondition violated")
  ELSE Gives(n, <<>>)

(***************************************************************************)
(* b04 tree layer.  The nodes of one path are kept by their base names;    *)
(* the root is above nodes[1].                                             *)
(***************************************************************************)

\* doSetBaseName of Node: bn is a string, and any string is taken.
doSetBaseName(ns, k, bn) == [ns EXCEPT ![k] = bn]

\* getFullName of node k of the path; node 0 is the RootNode, whose full
\* name is new StringName("", "/").
RECURSIVE getFullName(_, _)
getFullName(ns, k) ==
  LET result == getFullName(ns, k - 1)
  IN  IF k = 0 THEN mutNewStringName("b04", <<>>, <<"/">>)
      ELSE IF result.exc # "none" THEN result
      ELSE mutAppend(result.obj, ns[k])

(***************************************************************************)
(* b04 File: open, read and close.  A call gives [state, exc, value]; the  *)
(* value of read is the length of the Int8Array it returns.                *)
(***************************************************************************)
FileStates == {"OPEN", "CLOSED", "DELETED"}

fileCheckInvariant(st) ==
  IF st \notin FileStates THEN "InvalidStateException" ELSE "none"

\* Variant: open does not look at the state.
open_unguarded(st) ==
  [state |-> "OPEN", exc |-> "none", value |-> 0]

open(st) ==
  IF fileCheckInvariant(st) # "none"
  THEN [state |-> st, exc |-> fileCheckInvariant(st), value |-> 0]
  ELSE IF st # "CLOSED"
  THEN [state |-> st, exc |-> "IllegalArgumentException", value |-> 0]
  ELSE [state |-> "OPEN", exc |-> "none", value |-> 0]

read(st, noBytes) ==
  IF fileCheckInvariant(st) # "none"
  THEN [state |-> st, exc |-> fileCheckInvariant(st), value |-> 0]
  ELSE IF ~isInteger(noBytes) \/ noBytes.whole < 0
  THEN [state |-> st, exc |-> "IllegalArgumentException", value |-> 0]
  ELSE IF st # "OPEN"
  THEN [state |-> st, exc |-> "IllegalArgumentException", value |-> 0]
  ELSE [state |-> st, exc |-> "none", value |-> noBytes.whole]

close(st) ==
  IF fileCheckInvariant(st) # "none"
  THEN [state |-> st, exc |-> fileCheckInvariant(st), value |-> 0]
  ELSE IF st # "OPEN"
  THEN [state |-> st, exc |-> "IllegalArgumentException", value |-> 0]
  ELSE [state |-> "CLOSED", exc |-> "none", value |-> 0]

(***************************************************************************)
(* The client of the name classes.  It holds one name as the receiver of   *)
(* its calls (this) and, after a call, what the call returned (ret); it    *)
(* calls a constructor or a method of the receiver, and then either keeps  *)
(* the receiver or goes on with the returned name.                         *)
(***************************************************************************)

\* A name's fields with the array's contents in place of the reference.
NullView ==
  [kind |-> "null", delimiter |-> "", maskedName |-> <<>>, components |-> <<>>]

View(h, n) ==
  IF n = Null THEN NullView
  ELSE [kind |-> n.kind, delimiter |-> n.delimiter,
        maskedName |-> n.maskedName, components |-> h[n.components]]

NoPairCall ==
  [op |-> "none", i |-> Number(0), c |-> <<>>, other |-> NullView,
   excArr |-> "none", excStr |-> "none"]

NoMutCall ==
  [op |-> "none", iter |-> "none", source |-> <<>>, d |-> UNDEFINED,
   other |-> NoName, before |-> NoName, exc |-> "none", msg |-> "",
   value |-> <<>>, i |-> Number(0), c |-> <<>>, alias |-> FALSE,
   running |-> FALSE, loop |-> NoLoop, calls |-> 0]

NoTreeCall ==
  [op |-> "none", node |-> 0, bn |-> <<>>, exc |-> "none", msg |-> "",
   value |-> NoName]

\* Nothing has been done with the tree and the file.
FsIdle ==
  /\ nodes = <<>> /\ tcall = NoTreeCall
  /\ state = "CLOSED" /\ fcall = <<>>

NoCall ==
  [op |-> "none", i |-> Number(0), c |-> <<>>, source |-> <<>>, d |-> <<>>,
   other |-> NullView, before |-> NullView,
   exc |-> "none", msg |-> "", value |-> <<>>]

\* What the client passes.
\* The indexes lo..hi, and with them a number that is not an integer.
WholeIndexes(lo, hi) == {Number(k) : k \in lo..hi}
Indexes(lo, hi) == WholeIndexes(lo, hi) \cup {HALF}
CompInputs == SeqsUpTo(NameChars, MaxCompLen)
ListInputs == SeqsUpTo(CompInputs, MaxComps)
SourceInputs == SeqsUpTo(NameChars, MaxSrcLen)
DelimArgs == {<<d>> : d \in Delims} \cup {<<>>, <<".", "/">>, NULL, UNDEFINED}

\* The names a client can build to pass as the argument of concat and
\* isEqual, as views.
ArrayNameArgs ==
  {View(o.heap, o.ret) :
     o \in {r \in {NewStringArrayName([EmptyHeap EXCEPT !["parts"] = l],
                                      "parts", <<d>>, "other") :
                     l \in ListInputs, d \in Delims} : r.exc = "none"}}

StringNameArgs ==
  {View(o.heap, o.ret) :
     o \in {r \in {NewStringName(EmptyHeap, src, <<d>>, "other") :
                     src \in SourceInputs, d \in Delims} :
              r.exc = "none" /\ Len(r.heap["other"]) <= MaxComps}}

NameArgs == ArrayNameArgs \cup StringNameArgs

\* The object of an argument name, its array at the reference "other".
ArgObject(o) ==
  [kind |-> o.kind, delimiter |-> o.delimiter, maskedName |-> o.maskedName,
   components |-> "other"]

NameInit ==
  /\ this = Null /\ ret = Null /\ arrays = EmptyHeap
  /\ call = NoCall /\ pc = "ready"
  /\ arr = NullView /\ str = NullView /\ pcall = NoPairCall
  /\ text = <<>> /\ delim = DEFAULT_DELIMITER /\ log = <<>>
  /\ mut = NoName /\ mcall = NoMutCall
  /\ FsIdle

\* The call returns or throws: its locals and its argument die, the
\* receiver object is the one the client held.
Finish(outcome, rec) ==
  /\ ret' = outcome.ret
  /\ arrays' = [outcome.heap EXCEPT !["parts"] = <<>>, !["other"] = <<>>]
  /\ call' = [rec EXCEPT !.before = View(arrays, this),
                         !.exc = outcome.exc, !.msg = outcome.msg]
  /\ pc' = "returned"
  /\ UNCHANGED <<this, maskVars, pairVars, mutVars, fsVars>>

\* The client builds its first name.
ConstructStringName ==
  /\ pc = "ready" /\ this = Null
  /\ \E source \in SourceInputs, d \in DelimArgs :
       Finish(NewStringName(arrays, source, d, "ret"),
              [NoCall EXCEPT !.op = "new StringName",
                             !.source = source, !.d = d])

ConstructStringArrayName ==
  /\ pc = "ready" /\ this = Null
  /\ \E source \in ListInputs, d \in DelimArgs :
       Finish(NewStringArrayName([arrays EXCEPT !["parts"] = source],
                                 "parts", d, "ret"),
              [NoCall EXCEPT !.op = "new StringArrayName",
                             !.source = source, !.d = d])

SetComponent ==
  /\ pc = "ready" /\ this # Null
  /\ \E i \in Indexes(-1, getNoComponents(arrays, this)), c \in CompInputs :
       Finish(setComponent(arrays, this, i, c),
              [NoCall EXCEPT !.op = "setComponent", !.i = i, !.c = c])

Insert ==
  /\ pc = "ready" /\ this # Null
  /\ getNoComponents(arrays, this) < MaxComps
  /\ \E i \in Indexes(-1, getNoComponents(arrays, this) + 1),
        c \in CompInputs :
       Finish(insert(arrays, this, i, c),
              [NoCall EXCEPT !.op = "insert", !.i = i, !.c = c])

AppendComponent ==
  /\ pc = "ready" /\ this # Null
  /\ getNoComponents(arrays, this) < MaxComps
  /\ \E c \in CompInputs :
       Finish(append(arrays, this, c),
              [NoCall EXCEPT !.op = "append", !.c = c])

Remove ==
  /\ pc = "ready" /\ this # Null
  /\ \E i \in Indexes(-1, getNoComponents(arrays, this)) :
       Finish(remove(arrays, this, i),
              [NoCall EXCEPT !.op = "remove", !.i = i])

Concat ==
  /\ pc = "ready" /\ this # Null
  /\ \E o \in NameArgs :
       /\ getNoComponents(arrays, this) + Len(o.components) <= MaxComps
       /\ Finish(concat([arrays EXCEPT !["other"] = o.components],
                        this, ArgObject(o)),
                 [NoCall EXCEPT !.op = "concat", !.other = o])

\* The factory method, called with a new array of the given components.
\* It reads the receiver's class and delimiter only, so the receivers
\* without components stand for all.
WithComponents ==
  /\ pc = "ready" /\ this # Null /\ isEmpty(arrays, this)
  /\ \E parts \in ListInputs :
       Finish(withComponents([arrays EXCEPT !["parts"] = parts], this, "parts"),
              [NoCall EXCEPT !.op = "withComponents", !.source = parts])

IsEqual ==
  /\ pc = "ready" /\ this # Null
  /\ \E o \in NameArgs :
       Finish(Return(arrays, Null),
              [NoCall EXCEPT !.op = "isEqual", !.other = o,
                 !.value = isEqual([arrays EXCEPT !["other"] = o.components],
                                   this, ArgObject(o))])

\* The client reads a component; no name is returned.
GetComponent ==
  /\ pc = "ready" /\ this # Null
  /\ \E i \in Indexes(-1, getNoComponents(arrays, this) + 1) :
       LET out == getComponent(arrays, this, i)
       IN  Finish([out EXCEPT !.ret = Null],
                  [NoCall EXCEPT !.op = "getComponent", !.i = i,
                                 !.value = IF out.exc = "none" THEN out.ret
                                           ELSE <<>>])

\* The client looks at its name: getNoComponents(), isEmpty(), asString()
\* and asDataString().
Inspect ==
  /\ pc = "ready" /\ this # Null
  /\ Finish(Return(arrays, Null),
            [NoCall EXCEPT
               !.op = "inspect",
               !.value = [noComponents |-> getNoComponents(arrays, this),
                          isEmpty |-> isEmpty(arrays, this),
                          string |-> asString(arrays, this, UNDEFINED).ret,
                          dataString |-> asDataString(arrays, this)]])

\* The client prints its name with a delimiter of its choice; no name is
\* returned.
AsString ==
  /\ pc = "ready" /\ this # Null
  /\ \E d \in DelimArgs :
       LET out == asString(arrays, this, d)
       IN  Finish([out EXCEPT !.ret = Null],
                  [NoCall EXCEPT !.op = "asString", !.d = d,
                                 !.value = IF out.exc = "none" THEN out.ret
                                           ELSE <<>>])

\* The client takes the data string of its name and of another name.
DataStrings ==
  /\ pc = "ready" /\ this # Null
  /\ \E o \in NameArgs :
       Finish(Return(arrays, Null),
              [NoCall EXCEPT
                 !.op = "asDataString", !.other = o,
                 !.value =
                   <<asDataString(arrays, this),
                     asDataString([arrays EXCEPT !["other"] = o.components],
                                  ArgObject(o))>>])

\* The client asks for the hash code, twice.
GetHashCode ==
  /\ pc = "ready" /\ this # Null
  /\ Finish(Return(arrays, Null),
            [NoCall EXCEPT !.op = "getHashCode",
                           !.value = <<getHashCode(arrays, this),
                                       getHashCode(arrays, this)>>])

\* The round trip of the data string:
\* new StringName(this.asDataString(), DEFAULT_DELIMITER).
ReparseDataString ==
  /\ pc = "ready" /\ this # Null
  /\ Finish(NewStringName(arrays, asDataString(arrays, this),
                          <<DEFAULT_DELIMITER>>, "ret"),
            [NoCall EXCEPT !.op = "reparse",
                           !.source = asDataString(arrays, this),
                           !.d = <<DEFAULT_DELIMITER>>])

\* An edit with receiver r and the arguments i, c.
Edit(op, h, r, i, c) ==
  CASE op = "setComponent" -> setComponent(h, r, i, c)
    [] op = "insert" -> insert(h, r, i, c)
    [] op = "append" -> append(h, r, c)
    [] op = "remove" -> remove(h, r, i)

\* The client, still holding its receiver n, edits the name r that a call
\* on n returned: r is the receiver of this call (its array is "this" to
\* the call) and n's array is in the heap as "held".  The result takes the
\* place of r.
LaterEdit ==
  /\ pc = "returned" /\ ret # Null /\ this # Null
  /\ \E op \in {"setComponent", "insert", "append", "remove"},
        c \in SeqsUpTo(NameChars, MaxLaterLen) :
       LET h0 == [EmptyHeap EXCEPT !["this"] = arrays[ret.components],
                                   !["held"] = arrays[this.components]]
           out == Edit(op, h0, [ret EXCEPT !.components = "this"], Number(0), c)
       IN  /\ ret' = out.ret
           /\ arrays' = [EmptyHeap EXCEPT !["this"] = out.heap["held"],
                                          !["ret"] = out.heap["ret"]]
           /\ call' = [NoCall EXCEPT !.op = op, !.c = c,
                                     !.before = View(arrays, this),
                                     !.exc = out.exc, !.msg = out.msg]
           /\ pc' = "edited"
           /\ UNCHANGED <<this, maskVars, pairVars, mutVars, fsVars>>

\* After an insert(i, c) that returned the name r, the client calls
\* r.remove(i) and compares what it returns with its receiver n:
\* n.insert(i, c).remove(i).isEqual(n).  The result takes the place of r.
RemoveInserted ==
  /\ pc = "returned" /\ call.op = "insert" /\ call.exc = "none"
  /\ LET h0 == [EmptyHeap EXCEPT !["this"] = arrays[ret.components],
                                 !["held"] = arrays[this.components]]
         out == remove(h0, [ret EXCEPT !.components = "this"], call.i)
     IN  /\ ret' = out.ret
         /\ arrays' = [EmptyHeap EXCEPT !["this"] = out.heap["held"],
                                        !["ret"] = out.heap["ret"]]
         /\ call' = [call EXCEPT
                       !.op = "insert, remove",
                       !.exc = out.exc, !.msg = out.msg,
                       !.value = IF out.exc # "none" THEN FALSE
                                 ELSE isEqual(out.heap, out.ret,
                                              [this EXCEPT
                                                 !.components = "held"])]
         /\ pc' = "edited"
         /\ UNCHANGED <<this, maskVars, pairVars, mutVars, fsVars>>

\* The client goes on with the name the call returned, as long as the name
\* is within the bounds.
Adopt ==
  /\ pc \in {"returned", "edited"} /\ ret # Null
  /\ Len(arrays[ret.components]) <= MaxComps
  /\ \A k \in 1..Len(arrays[ret.components]) :
       Len(arrays[ret.components][k]) <= MaxCompLen
  /\ this' = [ret EXCEPT !.components = "this"]
  /\ arrays' = [EmptyHeap EXCEPT !["this"] = arrays[ret.components]]
  /\ ret' = Null /\ call' = NoCall /\ pc' = "ready"
  /\ UNCHANGED <<maskVars, pairVars, mutVars, fsVars>>

\* The client lets go of what the call returned and keeps its receiver.
Drop ==
  /\ pc \in {"returned", "edited"}
  /\ arrays' = [arrays EXCEPT !["ret"] = <<>>]
  /\ ret' = Null /\ call' = NoCall /\ pc' = "ready"
  /\ UNCHANGED <<this, maskVars, pairVars, mutVars, fsVars>>

Next ==
  \/ ConstructStringName \/ ConstructStringArrayName
  \/ SetComponent \/ Insert \/ AppendComponent \/ Remove \/ Concat
  \/ WithComponents \/ IsEqual \/ GetComponent \/ Inspect \/ GetHashCode
  \/ AsString \/ DataStrings \/ ReparseDataString
  \/ LaterEdit \/ RemoveInserted \/ Adopt \/ Drop

Spec == NameInit /\ [][Next]_vars

(***************************************************************************)
(* The two classes side by side: a StringArrayName is built from a list    *)
(* of masked components and a StringName from the join of the same list,   *)
(* and the client makes the same calls on both for as long as it cannot    *)
(* tell them apart.                                                        *)
(***************************************************************************)

\* A heap holding the name of the view v as the receiver, and its object.
HeapOf(v) == [EmptyHeap EXCEPT !["this"] = v.components]
ObjectOf(v) ==
  [kind |-> v.kind, delimiter |-> v.delimiter, maskedName |-> v.maskedName,
   components |-> "this"]

\* What a client sees of a name through the interface Name.
Observe(v) ==
  [noComponents |-> getNoComponents(HeapOf(v), ObjectOf(v)),
   components |-> copyLoop(HeapOf(v), ObjectOf(v), 0),
   string |-> asString(HeapOf(v), ObjectOf(v), UNDEFINED).ret,
   dataString |-> asDataString(HeapOf(v), ObjectOf(v))]

PairInit ==
  /\ \E source \in ListInputs, d \in Delims :
       /\ assertAllMasked(source, d, 1) = "none"
       /\ LET a == NewStringArrayName([EmptyHeap EXCEPT !["parts"] = source],
                                      "parts", <<d>>, "ret")
              s == NewStringName(EmptyHeap, join(source, d), <<d>>, "ret")
          IN  arr = View(a.heap, a.ret) /\ str = View(s.heap, s.ret)
  /\ pcall = NoPairCall
  /\ this = Null /\ ret = Null /\ arrays = EmptyHeap
  /\ call = NoCall /\ pc = "ready"
  /\ text = <<>> /\ delim = DEFAULT_DELIMITER /\ log = <<>>
  /\ mut = NoName /\ mcall = NoMutCall
  /\ FsIdle

\* Both names take the call; each goes on as the name its call returned,
\* or stays as it is when its call threw.
PairFinish(a, s, rec) ==
  /\ arr' = IF a.exc = "none" THEN View(a.heap, a.ret) ELSE arr
  /\ str' = IF s.exc = "none" THEN View(s.heap, s.ret) ELSE str
  /\ pcall' = [rec EXCEPT !.excArr = a.exc, !.excStr = s.exc]
  /\ UNCHANGED <<maskVars, nameVars, mutVars, fsVars>>

PairEdit(op, i, c) ==
  PairFinish(Edit(op, HeapOf(arr), ObjectOf(arr), i, c),
             Edit(op, HeapOf(str), ObjectOf(str), i, c),
             [NoPairCall EXCEPT !.op = op, !.i = i, !.c = c])

PairSetComponent ==
  /\ Observe(arr) = Observe(str)
  /\ \E i \in WholeIndexes(-1, Len(arr.components)), c \in CompInputs :
       PairEdit("setComponent", i, c)

PairInsert ==
  /\ Observe(arr) = Observe(str)
  /\ Len(arr.components) < MaxComps
  /\ \E i \in WholeIndexes(-1, Len(arr.components) + 1),
        c \in CompInputs :
       PairEdit("insert", i, c)

PairAppend ==
  /\ Observe(arr) = Observe(str)
  /\ Len(arr.components) < MaxComps
  /\ \E c \in CompInputs : PairEdit("append", Number(0), c)

PairRemove ==
  /\ Observe(arr) = Observe(str)
  /\ \E i \in WholeIndexes(-1, Len(arr.components)) :
       PairEdit("remove", i, <<>>)

PairConcat ==
  /\ Observe(arr) = Observe(str)
  /\ \E o \in NameArgs :
       /\ Len(arr.components) + Len(o.components) <= MaxComps
       /\ PairFinish(
            concat([HeapOf(arr) EXCEPT !["other"] = o.components],
                   ObjectOf(arr), ArgObject(o)),
            concat([HeapOf(str) EXCEPT !["other"] = o.components],
                   ObjectOf(str), ArgObject(o)),
            [NoPairCall EXCEPT !.op = "concat", !.other = o])

PairNext ==
  PairSetComponent \/ PairInsert \/ PairAppend \/ PairRemove \/ PairConcat

SpecPair == PairInit /\ [][PairNext]_vars

(***************************************************************************)
(* The client of the mutable iterations: it builds one name of b03 or b04  *)
(* and compares it with another name of the same iteration.                *)
(***************************************************************************)
MutInit ==
  /\ mut = NoName /\ mcall = NoMutCall
  /\ FsIdle
  /\ this = Null /\ ret = Null /\ arrays = EmptyHeap
  /\ call = NoCall /\ pc = "ready"
  /\ arr = NullView /\ str = NullView /\ pcall = NoPairCall
  /\ text = <<>> /\ delim = DEFAULT_DELIMITER /\ log = <<>>

\* The names of iteration iter that a client can pass as an argument.
MutNameArgs(iter) ==
  {o.obj : o \in {x \in {mutNewStringArrayName(iter, l, <<d>>) :
                           l \in ListInputs, d \in Delims}
                        \cup {mutNewStringName(iter, src, <<d>>) :
                                src \in SourceInputs, d \in Delims} :
                   x.exc = "none"}}

\* The delimiter arguments a client passes to a constructor of iteration
\* iter.
MutDelimArgs(iter) ==
  IF iter = "b04" THEN DelimArgs
  ELSE {<<d>> : d \in Delims} \cup {UNDEFINED}

\* The call is over: the receiver is what the call left, and a constructor
\* that threw leaves the client without a name.
MutFinish(outcome, rec) ==
  /\ mut' = outcome.obj
  /\ mcall' = [rec EXCEPT !.before = mut, !.exc = outcome.exc,
                          !.msg = outcome.msg, !.value = outcome.value]
  /\ UNCHANGED <<maskVars, nameVars, pairVars, fsVars>>

MutConstructStringName ==
  /\ mut = NoName /\ mcall = NoMutCall
  /\ \E iter \in Iterations, source \in SourceInputs :
     \E d \in MutDelimArgs(iter) :
       MutFinish(mutNewStringName(iter, source, d),
                 [NoMutCall EXCEPT !.op = "new StringName", !.iter = iter,
                                   !.source = source, !.d = d])

MutConstructStringArrayName ==
  /\ mut = NoName /\ mcall = NoMutCall
  /\ \E iter \in Iterations, source \in ListInputs :
     \E d \in MutDelimArgs(iter) :
       MutFinish(mutNewStringArrayName(iter, source, d),
                 [NoMutCall EXCEPT !.op = "new StringArrayName",
                                   !.iter = iter, !.source = source, !.d = d])

MutIsEqual ==
  /\ mut # NoName /\ mcall.op # "isEqual"
  /\ \E other \in MutNameArgs(mut.iter) \cup {NoName} :
       MutFinish(mutIsEqual(mut, other),
                 [NoMutCall EXCEPT !.op = "isEqual", !.iter = mut.iter,
                                   !.other = other])

MutNext ==
  \/ MutConstructStringName \/ MutConstructStringArrayName \/ MutIsEqual

SpecMutable == MutInit /\ [][MutNext]_vars

(***************************************************************************)
(* The client that edits a mutable name of b02, b03 or b04: it builds one  *)
(* name, then calls setComponent, insert, append, remove and concat on it. *)
(* concat is given another name or the receiver itself.                    *)
(***************************************************************************)
EditIterations == {"b02", "b03", "b04"}
EditComps == SeqsUpTo(NameChars, MaxEditLen)
EditLists == SeqsUpTo(EditComps, MaxComps)
EditSources == SeqsUpTo(NameChars, MaxEditSrc)

\* The names of iteration iter that a client passes to concat: the
\* StringNames it can build.
EditNameArgs(iter) ==
  {o.obj : o \in {x \in {mutNewStringName(iter, src, <<d>>) :
                           src \in EditSources, d \in Delims} :
                   x.exc = "none"}}

\* The client can make a call: it has a name, no call is running, the
\* last call has not thrown and fewer than MaxEdits calls have been made.
CanCall ==
  /\ mut # NoName /\ ~mcall.running /\ mcall.exc = "none"
  /\ mcall.calls < MaxEdits

EditFinish(outcome, rec) ==
  /\ mut' = outcome.obj
  /\ mcall' = [rec EXCEPT !.iter = outcome.obj.iter, !.before = mut,
                          !.exc = outcome.exc, !.msg = outcome.msg,
                          !.calls = mcall.calls + 1]
  /\ UNCHANGED <<maskVars, nameVars, pairVars, fsVars>>

EditConstructStringName ==
  /\ mut = NoName /\ mcall = NoMutCall
  /\ \E iter \in EditIterations, source \in EditSources, d \in Delims :
       /\ mutNewStringName(iter, source, <<d>>).exc = "none"
       /\ mut' = mutNewStringName(iter, source, <<d>>).obj
       /\ mcall' = [NoMutCall EXCEPT !.op = "new StringName", !.iter = iter,
                                     !.source = source, !.d = <<d>>]
       /\ UNCHANGED <<maskVars, nameVars, pairVars, fsVars>>

EditConstructStringArrayName ==
  /\ mut = NoName /\ mcall = NoMutCall
  /\ \E iter \in EditIterations, source \in EditLists, d \in Delims :
       /\ mutNewStringArrayName(iter, source, <<d>>).exc = "none"
       /\ mut' = mutNewStringArrayName(iter, source, <<d>>).obj
       /\ mcall' = [NoMutCall EXCEPT !.op = "new StringArrayName",
                                     !.iter = iter, !.source = source,
                                     !.d = <<d>>]
       /\ UNCHANGED <<maskVars, nameVars, pairVars, fsVars>>

EditSetComponent ==
  /\ CanCall
  /\ \E i \in WholeIndexes(0, mutGetNoComponents(mut)), c \in EditComps :
       EditFinish(mutSetComponent(mut, i, c),
                  [NoMutCall EXCEPT !.op = "setComponent", !.i = i, !.c = c])

EditInsert ==
  /\ CanCall
  /\ \E i \in WholeIndexes(0, mutGetNoComponents(mut) + 1), c \in EditComps :
       EditFinish(mutInsert(mut, i, c),
                  [NoMutCall EXCEPT !.op = "insert", !.i = i, !.c = c])

EditAppend ==
  /\ CanCall
  /\ \E c \in EditComps :
       EditFinish(mutAppend(mut, c),
                  [NoMutCall EXCEPT !.op = "append", !.c = c])

EditRemove ==
  /\ CanCall
  /\ \E i \in WholeIndexes(0, mutGetNoComponents(mut)) :
       EditFinish(mutRemove(mut, i),
                  [NoMutCall EXCEPT !.op = "remove", !.i = i])

\* n.concat(other) is called: other is another name, or n itself.
ConcatBegin ==
  /\ CanCall
  /\ \E other \in EditNameArgs(mut.iter) \cup {mut} :
     \E alias \in {other = mut} :
       /\ mcall' = [NoMutCall EXCEPT !.op = "concat", !.iter = mut.iter,
                                     !.other = IF alias THEN NoName ELSE other,
                                     !.alias = alias, !.before = mut,
                                     !.running = TRUE,
                                     !.loop = concatBegin(mut, other),
                                     !.calls = mcall.calls + 1]
       /\ UNCHANGED <<mut, maskVars, nameVars, pairVars, fsVars>>

\* The loop of concat tests its condition, and runs one iteration or ends.
ConcatStep ==
  /\ mcall.running /\ mcall.loop.pos < MaxSteps
  /\ LET other == IF mcall.alias THEN mut ELSE mcall.other
         goesOn == concatGoesOn(mut, other, mcall.loop)
         out == IF goesOn THEN concatIteration(mut, other, mcall.loop)
                ELSE concatEnd(mut, mcall.loop)
     IN  /\ mut' = out.obj
         /\ mcall' = [mcall EXCEPT
                        !.running = goesOn /\ out.exc = "none",
                        !.exc = out.exc, !.msg = out.msg,
                        !.loop.pos = IF goesOn THEN @ + 1 ELSE @,
                        !.loop.acc = IF goesOn /\ out.exc = "none"
                                     THEN out.value ELSE @]
  /\ UNCHANGED <<maskVars, nameVars, pairVars, fsVars>>

EditNext ==
  \/ EditConstructStringName \/ EditConstructStringArrayName
  \/ EditSetComponent \/ EditInsert \/ EditAppend \/ EditRemove
  \/ ConcatBegin \/ ConcatStep

SpecEdits == MutInit /\ [][EditNext]_vars

(***************************************************************************)
(* The client of the b04 tree: it creates nodes one below the other,       *)
(* renames them and asks a node for its full name.                         *)
(***************************************************************************)
BaseNames == SeqsUpTo(NameChars, MaxBaseLen)

\* new File(bn, parent) or new Directory(bn, parent) below the last node of
\* the path (below the root when there is none).
CreateNode ==
  /\ Len(nodes) < MaxDepth
  /\ \E bn \in BaseNames :
       /\ nodes' = doSetBaseName(Append(nodes, <<>>), Len(nodes) + 1, bn)
       /\ tcall' = [NoTreeCall EXCEPT !.op = "new", !.node = Len(nodes) + 1,
                                      !.bn = bn]
  /\ UNCHANGED <<maskVars, nameVars, pairVars, mutVars, state, fcall>>

Rename ==
  /\ \E k \in 1..Len(nodes), bn \in BaseNames :
       /\ nodes' = doSetBaseName(nodes, k, bn)
       /\ tcall' = [NoTreeCall EXCEPT !.op = "rename", !.node = k, !.bn = bn]
  /\ UNCHANGED <<maskVars, nameVars, pairVars, mutVars, state, fcall>>

GetFullName ==
  /\ \E k \in 1..Len(nodes) :
       LET result == getFullName(nodes, k)
       IN  tcall' = [NoTreeCall EXCEPT !.op = "getFullName", !.node = k,
                                      !.bn = nodes[k],
                                      !.exc = result.exc, !.msg = result.msg,
                                      !.value = result.obj]
  /\ UNCHANGED <<maskVars, nameVars, pairVars, mutVars, nodes, state, fcall>>

TreeNext == CreateNode \/ Rename \/ GetFullName

SpecTree == MutInit /\ [][TreeNext]_vars

(***************************************************************************)
(* The client of one b04 File, which is CLOSED after construction: it      *)
(* calls open, read and close in any order.                                *)
(***************************************************************************)
FileFinish(outcome, op, noBytes) ==
  /\ state' = outcome.state
  /\ fcall' = Append(fcall, [op |-> op, noBytes |-> noBytes,
                             before |-> state, exc |-> outcome.exc,
                             value |-> outcome.value])
  /\ UNCHANGED <<maskVars, nameVars, pairVars, mutVars, nodes, tcall>>

Open ==
  /\ Len(fcall) < MaxFileCalls
  /\ FileFinish(open(state), "open", Number(0))

Read ==
  /\ Len(fcall) < MaxFileCalls
  /\ \E noBytes \in Indexes(-1, MaxBytes) :
       FileFinish(read(state, noBytes), "read", noBytes)

Close ==
  /\ Len(fcall) < MaxFileCalls
  /\ FileFinish(close(state), "close", Number(0))

FileNext == Open \/ Read \/ Close

SpecFile == MutInit /\ [][FileNext]_vars

(***************************************************************************)
(* Specification of the masking engine: an input string and a delimiter    *)
(* are chosen, then the three helpers are applied in any order, each call  *)
(* logged with its argument and its result.  unescape and                  *)
(* escapeForDelimiter pass their result on to the next call.               *)
(***************************************************************************)
MaskInit ==
  /\ text \in StringsUpTo(MaxLen)
  /\ delim \in Delims
  /\ log = <<>>
  /\ this = Null /\ ret = Null /\ arrays = EmptyHeap
  /\ call = NoCall /\ pc = "ready"
  /\ arr = NullView /\ str = NullView /\ pcall = NoPairCall
  /\ mut = NoName /\ mcall = NoMutCall
  /\ FsIdle

CallUnescape ==
  /\ Len(log) < MaxCalls
  /\ text' = unescape(text)
  /\ log' = Append(log, [fn |-> "unescape", arg |-> text,
                         out |-> unescape(text), error |-> "none"])
  /\ UNCHANGED <<delim, nameVars, pairVars, mutVars, fsVars>>

CallEscapeForDelimiter ==
  /\ Len(log) < MaxCalls
  /\ text' = escapeForDelimiter(text, delim)
  /\ log' = Append(log, [fn |-> "escapeForDelimiter", arg |-> text,
                         out |-> escapeForDelimiter(text, delim),
                         error |-> "none"])
  /\ UNCHANGED <<delim, nameVars, pairVars, mutVars, fsVars>>

CallValidateMasked ==
  /\ Len(log) < MaxCalls
  /\ log' = Append(log, [fn |-> "validateMasked", arg |-> text,
                         out |-> text,
                         error |-> validateMasked(text, delim)])
  /\ UNCHANGED <<text, delim, nameVars, pairVars, mutVars, fsVars>>

MaskNext == CallUnescape \/ CallEscapeForDelimiter \/ CallValidateMasked

SpecMask == MaskInit /\ [][MaskNext]_vars

(***************************************************************************)
(* Properties of the masking engine                                        *)
(***************************************************************************)

\* The number of consecutive escape characters right before position j.
EscapesBefore(m, j) ==
  CHOOSE k \in 0..(j - 1) :
    /\ \A p \in (j - k)..(j - 1) : m[p] = ESCAPE_CHARACTER
    /\ (k = j - 1 \/ m[j - k - 1] # ESCAPE_CHARACTER)

\* Position j holds a delimiter that no escape character covers.
UnescapedDelimiterAt(m, d, j) == m[j] = d /\ EscapesBefore(m, j) % 2 = 0

\* m ends in an odd-length run of escape characters.
DanglingEscape(m) == EscapesBefore(m, Len(m) + 1) % 2 = 1

\* Every escaped character of m is one that needs the escape for d: the
\* escape character itself or d.
OnlyNeededEscapes(m, d) ==
  \A j \in 1..Len(m) :
    EscapesBefore(m, j) % 2 = 1 => m[j] \in {ESCAPE_CHARACTER, d}

\* The calls k, k+1, k+2 of the log are validateMasked (accepting),
\* unescape and escapeForDelimiter, each on the result of the one before.
ValidatedRoundTripAt(k) ==
  /\ k + 2 <= Len(log)
  /\ log[k].fn = "validateMasked" /\ log[k].error = "none"
  /\ log[k + 1].fn = "unescape"
  /\ log[k + 2].fn = "escapeForDelimiter"

\* C7 (as stated): for every d and every m that passes validateMasked(m, d),
\* escapeForDelimiter(unescape(m), d) = m.
C7_ReescapeIdentity_AsStated ==
  \A k \in 1..Len(log) :
    ValidatedRoundTripAt(k) => log[k + 2].out = log[k].arg

\* C7 (amended): for every d and every m that passes validateMasked(m, d)
\* and in which every escaped character is the escape character or d,
\* escapeForDelimiter(unescape(m), d) = m.
C7_ReescapeIdentity ==
  \A k \in 1..Len(log) :
    (ValidatedRoundTripAt(k) /\ OnlyNeededEscapes(log[k].arg, delim))
      => log[k + 2].out = log[k].arg

\* A valid component with an escaped delimiter and an escaped escape
\* character has been unescaped and re-escaped.
C7_Witness ==
  /\ ValidatedRoundTripAt(1)
  /\ delim # ESCAPE_CHARACTER
  /\ OnlyNeededEscapes(log[1].arg, delim)
  /\ \E j \in 2..Len(log[1].arg) :
       log[1].arg[j] = delim /\ log[1].arg[j - 1] = ESCAPE_CHARACTER
  /\ log[2].out # log[1].arg
  /\ log[3].out = log[1].arg

\* C8: for every raw string r and every delimiter d,
\* unescape(escapeForDelimiter(r, d)) = r, and escapeForDelimiter(r, d)
\* passes validateMasked for d.
C8_UnescapeAfterEscape ==
  \A k \in 1..Len(log) :
    log[k].fn = "escapeForDelimiter" =>
      \A n \in (k + 1)..Len(log) :
        /\ (log[n].fn = "validateMasked" /\ log[n].arg = log[k].out)
             => log[n].error = "none"
        /\ (log[n].fn = "unescape" /\ log[n].arg = log[k].out)
             => log[n].out = log[k].arg

\* A raw string holding both the delimiter and the escape character has
\* been escaped, validated and unescaped again.
C8_Witness ==
  /\ Len(log) = 3
  /\ log[1].fn = "escapeForDelimiter"
  /\ \E i, j \in 1..Len(log[1].arg) :
       log[1].arg[i] = delim /\ log[1].arg[j] = ESCAPE_CHARACTER /\ i # j
  /\ log[2].fn = "validateMasked" /\ log[2].error = "none"
  /\ log[3].fn = "unescape" /\ log[3].out = log[1].arg

\* C9: for a delimiter d other than the escape character, validateMasked(m, d)
\* fails exactly when m has a delimiter preceded by an even number of
\* consecutive escape characters or ends in an odd-length run of escape
\* characters.
C9_ValidateMaskedExact ==
  delim # ESCAPE_CHARACTER =>
    \A k \in 1..Len(log) :
      log[k].fn = "validateMasked" =>
        (log[k].error # "none" <=>
           \/ \E j \in 1..Len(log[k].arg) :
                UnescapedDelimiterAt(log[k].arg, delim, j)
           \/ DanglingEscape(log[k].arg))

\* validateMasked has rejected a string for its trailing escape character
\* alone, and accepted a string that holds an escaped delimiter.
C9_Witness ==
  /\ delim # ESCAPE_CHARACTER
  /\ Len(log) = 3
  /\ log[1].fn = "validateMasked" /\ log[1].error = "dangling escape in component"
  /\ \A j \in 1..Len(log[1].arg) : ~UnescapedDelimiterAt(log[1].arg, delim, j)
  /\ log[2].fn = "escapeForDelimiter"
  /\ log[3].fn = "validateMasked" /\ log[3].error = "none"
  /\ \E j \in 1..Len(log[3].arg) : log[3].arg[j] = delim

(***************************************************************************)
(* Properties of the name classes                                          *)
(***************************************************************************)

\* Every component of the list passes validateMasked for the delimiter d.
AllMasked(components, d) ==
  \A k \in 1..Len(components) : validateMasked(components[k], d) = "none"

\* The name the last call returned, as a view.
Returned == View(arrays, ret)

\* C1: new StringName(n.asDataString(), ".") has as many components as n,
\* and its i-th component unescapes to what n's i-th component unescapes to.
C1_DataStringRoundTrip ==
  (pc = "returned" /\ call.op = "reparse") =>
     /\ call.exc = "none"
     /\ Len(Returned.components) = Len(call.before.components)
     /\ mapUnescape(Returned.components) = mapUnescape(call.before.components)

\* C3: withComponents(parts) of a StringName, for parts that all pass
\* validateMasked for the name's delimiter, returns a name with
\* getNoComponents() = parts.length and getComponent(i) = parts[i].
C3_StringNameFactory ==
  (pc = "returned" /\ call.op = "withComponents"
     /\ call.before.kind = "StringName"
     /\ AllMasked(call.source, call.before.delimiter)) =>
       /\ call.exc = "none"
       /\ getNoComponents(arrays, ret) = Len(call.source)
       /\ \A i \in 0..(Len(call.source) - 1) :
            getComponent(arrays, ret, Number(i)).ret = call.source[i + 1]

\* C4: when every component of b passes validateMasked for a's delimiter,
\* a.concat(b) succeeds and has a.getNoComponents() + b.getNoComponents()
\* components.
C4_ConcatLength ==
  (pc = "returned" /\ call.op = "concat"
     /\ AllMasked(call.other.components, call.before.delimiter)) =>
       /\ call.exc = "none"
       /\ getNoComponents(arrays, ret) =
            Len(call.before.components) + Len(call.other.components)

\* C5: when a component of other holds the receiver's delimiter unescaped,
\* concat fails with the masking error and returns nothing, whichever
\* class the receiver has.
C5_ConcatValidates ==
  (pc = "returned" /\ call.op = "concat"
     /\ call.before.delimiter # ESCAPE_CHARACTER
     /\ \E k \in 1..Len(call.other.components) :
          \E j \in 1..Len(call.other.components[k]) :
            UnescapedDelimiterAt(call.other.components[k],
                                 call.before.delimiter, j)) =>
       /\ call.exc = "InvalidStateException"
       /\ ret = Null

\* C6: after every call on a name n, and after every later edit of the
\* name such a call returned, whether the call returned or threw, n has the
\* delimiter, the number of components and the components it had before.
C6_Immutability ==
  (pc \in {"returned", "edited"} /\ this # Null) =>
     /\ getDelimiterCharacter(this) = call.before.delimiter
     /\ getNoComponents(arrays, this) = Len(call.before.components)
     /\ \A i \in 0..(getNoComponents(arrays, this) - 1) :
          getComponent(arrays, this, Number(i)).ret
            = call.before.components[i + 1]
     /\ View(arrays, this) = call.before

\* A returned name has been edited into a name with other components while
\* the client holds the first receiver, which has components.
C6_Witness ==
  /\ pc = "edited" /\ call.op = "setComponent" /\ call.exc = "none"
  /\ getNoComponents(arrays, this) > 0
  /\ Returned.components # call.before.components
  /\ Len(Returned.components) = Len(call.before.components)

\* C10: a.isEqual(b) is true exactly when a and b have the same delimiter,
\* the same number of components and identical getComponent(i) for every i.
C10_MaskedFormEquality ==
  (pc = "returned" /\ call.op = "isEqual") =>
     (call.value <=>
        /\ call.before.delimiter = call.other.delimiter
        /\ Len(call.before.components) = Len(call.other.components)
        /\ \A k \in 1..Len(call.before.components) :
             call.before.components[k] = call.other.components[k])

\* isEqual has answered false for two names of different classes whose
\* components unescape to the same raw strings.
C10_Witness ==
  /\ pc = "returned" /\ call.op = "isEqual" /\ call.value = FALSE
  /\ call.before.kind # call.other.kind
  /\ call.before.delimiter = call.other.delimiter
  /\ Len(call.before.components) = 2
  /\ mapUnescape(call.before.components) = mapUnescape(call.other.components)

\* C12: whenever a.isEqual(b) is true, a.getHashCode() and b.getHashCode()
\* are the same number, whatever the classes of a and b; and two calls of
\* getHashCode() on one name give the same number.
C12_HashConsistent ==
  /\ (pc = "returned" /\ call.op = "isEqual" /\ call.value = TRUE)
       => getHashCode(arrays, this)
            = getHashCode([arrays EXCEPT !["other"] = call.other.components],
                          ArgObject(call.other))
  /\ (pc = "returned" /\ call.op = "getHashCode")
       => call.value[1] = call.value[2]

\* isEqual has answered true for a StringName and a StringArrayName of two
\* components, one of them empty.
C12_Witness ==
  /\ pc = "returned" /\ call.op = "isEqual" /\ call.value = TRUE
  /\ call.before.kind # call.other.kind
  /\ Len(call.other.components) = 2
  /\ \E k \in 1..2 : Len(call.other.components[k]) = 0
  /\ \E k \in 1..2 : Len(call.other.components[k]) > 0

\* The delimiter a constructor call works with, for a delimiter argument
\* that the AbstractName constructor accepts.
Accepted(d) == AbstractNameInit(d).exc = "none"
DelimiterOf(d) == AbstractNameInit(d).delimiter

\* The number of delimiter characters of source that no preceding escape
\* character consumes.
UnescapedDelimiters(source, d) ==
  Cardinality({j \in 1..Len(source) : UnescapedDelimiterAt(source, d, j)})

\* C13, as stated: new StringName(source, d) of a non-empty source without
\* a dangling escape has 1 + (number of delimiter characters not consumed
\* by a preceding escape character) components; the empty source has 0.
C13_TokenizerCount_AsStated ==
  (pc = "returned" /\ call.op = "new StringName" /\ Accepted(call.d)
     /\ ~DanglingEscape(call.source)) =>
       /\ call.exc = "none"
       /\ getNoComponents(arrays, ret) =
            IF Len(call.source) = 0 THEN 0
            ELSE 1 + UnescapedDelimiters(call.source, DelimiterOf(call.d))

\* C13, amended: the delimiter characters counted are those that are
\* neither consumed by a preceding escape character nor the escape
\* character themselves (an escape character always opens an escape, also
\* when it is the delimiter).
C13_TokenizerCount ==
  (pc = "returned" /\ call.op = "new StringName" /\ Accepted(call.d)
     /\ ~DanglingEscape(call.source)) =>
       /\ call.exc = "none"
       /\ getNoComponents(arrays, ret) =
            IF Len(call.source) = 0 THEN 0
            ELSE 1 + (IF DelimiterOf(call.d) = ESCAPE_CHARACTER THEN 0
                      ELSE UnescapedDelimiters(call.source,
                                               DelimiterOf(call.d)))

\* new StringName of three delimiters has given a name of four components.
C13_Witness ==
  /\ pc = "returned" /\ call.op = "new StringName" /\ call.exc = "none"
  /\ call.source = <<"/", "/", "/">> /\ call.d = <<"/">>
  /\ Returned.components = <<<<>>, <<>>, <<>>, <<>>>>

\* C14: new StringName of a source that ends in a dangling escape, new
\* StringArrayName of a list with such a component, and setComponent,
\* insert and append with such a component all throw and return no name.
C14_DanglingEscapeRejected ==
  (/\ pc = "returned"
   /\ \/ call.op = "new StringName" /\ DanglingEscape(call.source)
      \/ /\ call.op = "new StringArrayName"
         /\ \E k \in 1..Len(call.source) : DanglingEscape(call.source[k])
      \/ /\ call.op \in {"setComponent", "insert", "append"}
         /\ DanglingEscape(call.c))
  => (call.exc # "none" /\ ret = Null)

\* new StringName of a source that ends in a lone escape character, with a
\* delimiter the constructor accepts, has thrown.
C14_Witness ==
  /\ pc = "returned" /\ call.op = "new StringName"
  /\ call.source = <<"/", "\\">> /\ call.d = <<".">>
  /\ call.exc = "InvalidStateException" /\ ret = Null

\* The exception kind of a bad delimiter or index, and the kind that
\* checkInvariant throws when the class invariant is broken.
ArgumentErrorKind == AbstractNameInit(NULL).exc
InvariantErrorKind == checkInvariant(-1)

\* C15: a component with a dangling escape or an unescaped delimiter is
\* reported with an error kind that is neither the argument error kind nor
\* the invariant error kind.
C15_ErrorKindsApart ==
  (/\ pc = "returned"
   /\ \/ /\ call.op \in {"setComponent", "insert", "append"}
         /\ validateMasked(call.c, call.before.delimiter) # "none"
      \/ /\ call.op = "new StringArrayName" /\ Accepted(call.d)
         /\ ~AllMasked(call.source, DelimiterOf(call.d)))
  => (/\ call.exc # "none"
      /\ call.exc \notin {ArgumentErrorKind, InvariantErrorKind})

\* C16: getComponent(i) of a name with n components returns the i-th
\* masked component when i is an integer with 0 <= i < n, and throws the
\* argument error for every other i: i = n, i < 0, i > n, and a number that
\* is not an integer.
C16_GetComponentBounds ==
  (pc = "returned" /\ call.op = "getComponent") =>
     IF isInteger(call.i) /\ 0 <= call.i.whole
          /\ call.i.whole < Len(call.before.components)
     THEN /\ call.exc = "none"
          /\ call.value = call.before.components[call.i.whole + 1]
     ELSE call.exc = ArgumentErrorKind

\* getComponent(n) on a StringName with n = 2 components has thrown.
C16_Witness ==
  /\ pc = "returned" /\ call.op = "getComponent"
  /\ call.before.kind = "StringName"
  /\ Len(call.before.components) = 2 /\ call.i = Number(2)
  /\ call.exc = "IllegalArgumentException"

\* C17: with a validly masked c, insert(i, c) on a name of n components
\* succeeds exactly for the integers 0 <= i <= n and throws the argument
\* error for every other i; setComponent(n, c) and remove(n) throw.
C17_InsertBounds ==
  /\ (pc = "returned" /\ call.op = "insert"
        /\ validateMasked(call.c, call.before.delimiter) = "none") =>
       IF isInteger(call.i) /\ 0 <= call.i.whole
            /\ call.i.whole <= Len(call.before.components)
       THEN call.exc = "none"
       ELSE call.exc = ArgumentErrorKind
  /\ (pc = "returned" /\ call.op \in {"setComponent", "remove"}
        /\ call.i = Number(Len(call.before.components))) =>
       call.exc # "none"

\* C18: remove(i) throws on the empty name for every i; on a name of
\* n >= 1 components and for 0 <= i < n it returns a name of exactly n - 1
\* components: the receiver's without the i-th, in the same order.
C18_Remove ==
  (pc = "returned" /\ call.op = "remove") =>
     IF Len(call.before.components) = 0 THEN call.exc # "none"
     ELSE (isInteger(call.i) /\ 0 <= call.i.whole
             /\ call.i.whole < Len(call.before.components)) =>
            /\ call.exc = "none"
            /\ Returned.components
                 = spliceOut(call.before.components, call.i.whole)

\* C19: append(c) with a validly masked c returns a name of n + 1
\* components, the receiver's n followed by c, and so does insert(n, c).
C19_Append ==
  (/\ pc = "returned"
   /\ validateMasked(call.c, call.before.delimiter) = "none"
   /\ \/ call.op = "append"
      \/ /\ call.op = "insert"
         /\ call.i = Number(Len(call.before.components)))
  => (/\ call.exc = "none"
      /\ Returned.components = Append(call.before.components, call.c))

\* C20: new StringName("", d) and new StringArrayName([], d) have 0
\* components, isEmpty() true, asString() "" and asDataString() ""; and
\* isEmpty() of any name is true exactly when getNoComponents() is 0.
C20_EmptyValue ==
  /\ (/\ pc = "returned" /\ Accepted(call.d) /\ call.source = <<>>
      /\ call.op \in {"new StringName", "new StringArrayName"})
     => /\ call.exc = "none"
        /\ getNoComponents(arrays, ret) = 0
        /\ isEmpty(arrays, ret)
        /\ asString(arrays, ret, UNDEFINED).ret = <<>>
        /\ asDataString(arrays, ret) = <<>>
  /\ (pc = "returned" /\ call.op = "inspect")
     => /\ call.value.isEmpty <=> call.value.noComponents = 0
        /\ call.value.noComponents = Len(call.before.components)

\* new StringName("", "/") has returned a name.
C20_Witness ==
  /\ pc = "returned" /\ call.op = "new StringName" /\ call.exc = "none"
  /\ call.source = <<>> /\ call.d = <<"/">>
  /\ ret.kind = "StringName" /\ ret.delimiter = "/"

\* C21: asString(d) with a one-character d, or with no d (the name's own
\* delimiter), is the unescaped components joined by d; nothing is escaped,
\* so a raw component that holds d shows it as it is.
C21_AsString ==
  (pc = "returned" /\ call.op = "asString"
     /\ (call.d = UNDEFINED \/ (call.d # NULL /\ Len(call.d) = 1))) =>
       /\ call.exc = "none"
       /\ call.value =
            join(mapUnescape(call.before.components),
                 IF call.d = UNDEFINED THEN call.before.delimiter
                 ELSE call.d[1])

\* asString() of the name with the one component \. has given ".".
C21_Witness ==
  /\ pc = "returned" /\ call.op = "asString" /\ call.d = UNDEFINED
  /\ call.before.delimiter = "."
  /\ call.before.components = <<<<"\\", ".">>>>
  /\ call.value = <<".">>

\* C22: two names whose components unescape to the same raw strings have
\* the same asDataString(), whatever their delimiters and classes, and the
\* string is the raw components escaped for "." and joined by ".".
C22_DataStringCanonical ==
  (pc = "returned" /\ call.op = "asDataString") =>
     /\ mapUnescape(call.before.components)
          = mapUnescape(call.other.components)
        => call.value[1] = call.value[2]
     /\ call.value[1] =
          join(mapEscape(mapUnescape(call.before.components),
                         DEFAULT_DELIMITER), DEFAULT_DELIMITER)

\* A StringName with "/" and a StringArrayName with "." that both hold the
\* raw component "/" have given the same data string.
C22_Witness ==
  /\ pc = "returned" /\ call.op = "asDataString"
  /\ call.before.kind = "StringName" /\ call.before.delimiter = "/"
  /\ call.other.kind = "StringArrayName" /\ call.other.delimiter = "."
  /\ call.before.components = <<<<"\\", "/">>>>
  /\ call.other.components = <<<<"/">>>>
  /\ call.value = <<<<"/">>, <<"/">>>>

\* C29: every name the client holds or is handed keeps components that
\* all pass validateMasked for the name's own delimiter; a constructor gives
\* the name the delimiter it was called with, and setComponent, insert,
\* append, remove and concat give their result the receiver's delimiter.
C29_MaskedStorage ==
  /\ this # Null => AllMasked(arrays[this.components], this.delimiter)
  /\ ret # Null => AllMasked(arrays[ret.components], ret.delimiter)
  /\ (pc = "returned" /\ ret # Null
        /\ call.op \in {"new StringName", "new StringArrayName"})
       => (Accepted(call.d) /\ ret.delimiter = DelimiterOf(call.d))
  /\ (pc = "returned" /\ ret # Null
        /\ call.op \in {"setComponent", "insert", "append", "remove",
                        "concat"})
       => ret.delimiter = call.before.delimiter

\* concat of a StringName with "." and a name with "/" that holds the
\* component "." has returned a name.
C29_Witness ==
  /\ pc = "returned" /\ call.op = "concat" /\ call.exc = "none"
  /\ call.before.kind = "StringName" /\ call.before.delimiter = "."
  /\ call.other.delimiter = "/" /\ call.other.components = <<<<".">>>>
  /\ ret # Null

\* C30: when n.insert(i, c) has succeeded, remove(i) on its result
\* succeeds and gives a name that isEqual(n).
C30_InsertRemove ==
  (pc = "edited" /\ call.op = "insert, remove") =>
     (call.exc = "none" /\ call.value = TRUE)

\* C2: after every call made on a StringArrayName and on the StringName
\* built from the same components, the call has succeeded on both or failed
\* on both, and both report the same getNoComponents(), getComponent(i),
\* asString() and asDataString().
C2_Indistinguishable ==
  pcall.op # "none" =>
    /\ (pcall.excArr = "none" <=> pcall.excStr = "none")
    /\ Observe(arr) = Observe(str)

(***************************************************************************)
(* The mutable iterations b03 and b04                                      *)
(***************************************************************************)

\* C11: in b03 and b04, isEqual returns false for every pair of names with
\* different delimiters, whatever their components.
C11_DelimiterInequality ==
  (mcall.op = "isEqual" /\ mcall.other # NoName
     /\ mcall.other.delimiter # mut.delimiter)
  => (mcall.exc = "none" /\ mcall.value = FALSE)

\* What validateMasked reports.
MaskingMessages ==
  {"dangling escape in component", "unmasked delimiter in component"}

\* C23: a constructor of b06 or of b04 called with a null, an empty or a
\* longer delimiter throws IllegalArgumentException and gives no name; called
\* with one character (or with none, which stands for ".") it passes the
\* delimiter check, and the name it gives has that delimiter.
C23_DelimiterPrecondition ==
  /\ (pc = "returned" /\ call.op \in {"new StringName", "new StringArrayName"})
       => IF Accepted(call.d)
          THEN /\ call.exc = "none" => ret.delimiter = DelimiterOf(call.d)
               /\ call.exc # "none" => call.msg \in MaskingMessages
          ELSE call.exc = "IllegalArgumentException" /\ ret = Null
  /\ (mcall.iter = "b04"
        /\ mcall.op \in {"new StringName", "new StringArrayName"})
       => IF Accepted(mcall.d)
          THEN /\ mcall.exc = "none" => mut.delimiter = DelimiterOf(mcall.d)
               /\ mcall.exc # "none" => mcall.msg \in MaskingMessages
          ELSE mcall.exc = "IllegalArgumentException" /\ mut = NoName

(***************************************************************************)
(* Edits of the mutable names, b02 to b04                                  *)
(***************************************************************************)

\* C24: when concat of the b02 StringArrayName, of b03 or of b04 has thrown
\* because a component of other is not masked for the receiver's delimiter,
\* the receiver is what it was before the call.
C24_NoPartialMutation ==
  (/\ mcall.op = "concat" /\ ~mcall.running
   /\ mcall.exc # "none" /\ mcall.msg \in MaskingMessages
   /\ ~(mcall.iter = "b02" /\ mut.kind = "StringName"))
  => mut = mcall.before

\* C27: after a call on a StringName of b02, b03 or b04 has succeeded,
\* getComponent(i) succeeds for every i below getNoComponents(), and
\* getNoComponents() is the number of components the name reads from its
\* string; after append it is one more than before the call.
C27_CountConsistent ==
  (/\ mut.kind = "StringName" /\ mcall.calls > 0
   /\ ~mcall.running /\ mcall.exc = "none")
  => /\ \A i \in 0..(mutGetNoComponents(mut) - 1) :
          mutGetComponent(mut, Number(i)).exc = "none"
     /\ mutGetNoComponents(mut) = Len(getComponents(mut))
     /\ mcall.op = "append" =>
          mutGetNoComponents(mut) = mutGetNoComponents(mcall.before) + 1

\* C28: while n.concat(n) runs on a name n with at least one component, n
\* never holds more than twice its former components, and when the call is
\* over it has not thrown and n holds its former components twice.
C28_SelfConcat ==
  (/\ mcall.op = "concat" /\ mcall.alias
   /\ mutGetNoComponents(mcall.before) > 0)
  => IF mcall.running
     THEN mutGetNoComponents(mut) <= 2 * mutGetNoComponents(mcall.before)
     ELSE /\ mcall.exc = "none"
          /\ mutComponents(mut) = mutComponents(mcall.before)
                                    \o mutComponents(mcall.before)

(***************************************************************************)
(* b04 tree and File                                                       *)
(***************************************************************************)

\* C25: every base name a node was created or renamed with is a valid
\* masked component for the delimiter "/" of the root's name, so that
\* getFullName of a node does not throw a masking error.
C25_MaskedBaseNames ==
  /\ \A k \in 1..Len(nodes) : validateMasked(nodes[k], "/") = "none"
  /\ tcall.op = "getFullName" => tcall.msg \notin MaskingMessages

====
